---- MODULE Spec2Model ----
(***************************************************************************)
(* State-machine model of the RAG framework's session-aware orchestrator   *)
(* (src/src/agent_orchestration/orchestrator.py, served by                 *)
(* src/src/agent_orchestration/main.py) and of its response caches         *)
(* (src/src/serving/service.py, src/src/cost_optimization/service.py).     *)
(*                                                                         *)
(* Strings the code normalises are sequences of one-character strings, so  *)
(* that lower() and strip() are computed and not assumed.  Every message   *)
(* content is such a sequence.  Timestamps and log output are left out:    *)
(* no decision of the code reads them.                                     *)
(***************************************************************************)
EXTENDS Integers, Sequences, FiniteSets, TLC

VARIABLES
    active_sessions,   \* AgentOrchestrator.active_sessions: id -> session dict
    archived,          \* session_data objects popped by end_session: id -> session dict
    next_session,      \* number of uuid4 session ids drawn so far
    agent_configs,     \* AgentOrchestrator.agent_configs, in dict insertion order
    running,           \* process_query invocations suspended at the provider call
    result,            \* what the last finished call returned or raised
    response_cache,    \* ServingService.response_cache, in dict insertion order
    cost_cache,        \* CostOptimizationService.cache, in dict insertion order
    config,            \* ServingConfig / CostOptimizationConfig values read by the code
    served,            \* what the last finished serving call returned or raised
    stream,            \* the process_request_streaming generator in flight
    documents,         \* MockVectorDB.documents, in dict insertion order
    indices,           \* the Elasticsearch indices behind mvp's VectorDBClient
    found,             \* what the last finished vector database call returned or raised
    chunked,           \* what the last finished document processor call returned or raised
    pconfig            \* DocumentProcessingConfig values read by the code

vars == <<active_sessions, archived, next_session, agent_configs,
          running, result, response_cache, cost_cache, config, served, stream,
          documents, indices, found, chunked, pconfig>>

orchVars == <<active_sessions, archived, next_session, agent_configs,
              running>>

servingVars == <<response_cache, cost_cache, config, served, stream>>

indexVars == <<documents, indices, found, chunked, pconfig>>

----------------------------------------------------------------------------
(* Bounds *)

MaxSessions == 2
MaxHistory == 4
MaxCacheCap == 1

----------------------------------------------------------------------------
(* Values *)

None == "None"

Q1 == <<"a">>
Q2 == <<" ", "A">>
Q3 == <<"b">>

Queries == {Q1, Q2, Q3}

SessionIdSeq == <<"s1", "s2", "s3", "s4">>

UserIds == {"u1", "u2"}

EmptyContext == [k \in {} |-> None]

QueryContexts == {EmptyContext, [topic |-> "x"]}

\* an id derived without randomness: the first id again
Uuid4_Reused(pool, n) == pool[1]

\* uuid.uuid4(): an id no earlier call returned
Uuid4(pool, n) == pool[n + 1]

SessionIdsDrawn == {SessionIdSeq[i] : i \in 1..next_session}

----------------------------------------------------------------------------
(* Helpers on dicts kept in insertion order: a sequence of [key, value] *)

DictKeys(d) == {d[i].key : i \in 1..Len(d)}

DictIndex(d, k) == CHOOSE i \in 1..Len(d) : d[i].key = k

DictGet(d, k) == IF k \in DictKeys(d) THEN d[DictIndex(d, k)].value ELSE None

\* d[k] = v: an existing key keeps its position, a new key goes last
DictSet(d, k, v) ==
    IF k \in DictKeys(d)
    THEN [d EXCEPT ![DictIndex(d, k)] = [key |-> k, value |-> v]]
    ELSE Append(d, [key |-> k, value |-> v])

\* dict.update(other) on plain (unordered) dicts: last write wins per key
DictUpdate(a, b) ==
    [k \in (DOMAIN a) \cup (DOMAIN b) |-> IF k \in DOMAIN b THEN b[k] ELSE a[k]]

----------------------------------------------------------------------------
(* AgentOrchestrator *)

Message(role, content) == [role |-> role, content |-> content]

NewSession(user_id) ==
    [user_id |-> user_id, status |-> "active", history |-> <<>>,
     agents |-> {}, context |-> EmptyContext]

\* What a call gave its caller: kind is the "status" of the returned dict,
\* "ok" for an answer, "error" for a dict with error=True, or the name of
\* the exception that left the call.
NoResult == [op |-> "none", kind |-> "none", session_id |-> None]

Returned(op, kind, sid) == [op |-> op, kind |-> kind, session_id |-> sid]

\* handlers that may start while another one is suspended in the provider
LoopFree_Always == TRUE

\* The event loop runs one handler at a time: the handlers are async
\* functions that call the orchestrator synchronously and never await.
LoopFree == running = {}

\* session is a reference to the dict: it stays the same object after
\* end_session has popped it from active_sessions
SessionObject(sid) ==
    IF sid \in DOMAIN active_sessions THEN active_sessions[sid] ELSE archived[sid]

StoreSession(sid, s) ==
    IF sid \in DOMAIN active_sessions
    THEN /\ active_sessions' = [active_sessions EXCEPT ![sid] = s]
         /\ UNCHANGED archived
    ELSE /\ archived' = [archived EXCEPT ![sid] = s]
         /\ UNCHANGED active_sessions

\* a lookup that also finds the sessions end_session set aside
SessionMissing_FindsEnded(sid) ==
    sid \notin (DOMAIN active_sessions) \cup (DOMAIN archived)

\* session_id not in self.active_sessions
SessionMissing(sid) == sid \notin DOMAIN active_sessions

create_session(user_id) ==
    /\ LoopFree
    /\ next_session < MaxSessions
    /\ LET sid == Uuid4(SessionIdSeq, next_session) IN
         /\ active_sessions' =
              [s \in (DOMAIN active_sessions) \cup {sid} |->
                 IF s = sid THEN NewSession(user_id) ELSE active_sessions[s]]
         /\ result' = Returned("create_session", "active", sid)
    /\ next_session' = next_session + 1
    /\ UNCHANGED <<archived, agent_configs, running>>
    /\ UNCHANGED servingVars
    /\ UNCHANGED indexVars

\* end_session without the pop: the ended session stays in active_sessions
end_session_KeepsSession(sid) ==
    /\ LoopFree
    /\ IF SessionMissing(sid)
       THEN /\ result' = Returned("end_session", "ValueError", sid)
            /\ UNCHANGED <<active_sessions, archived>>
       ELSE /\ archived' =
                 [s \in (DOMAIN archived) \cup {sid} |->
                    IF s = sid THEN [active_sessions[sid] EXCEPT !.status = "ended"]
                    ELSE archived[s]]
            /\ active_sessions' = active_sessions
            /\ result' = Returned("end_session", "ended", sid)
    /\ UNCHANGED <<next_session, agent_configs, running>>
    /\ UNCHANGED servingVars
    /\ UNCHANGED indexVars

end_session(sid) ==
    /\ LoopFree
    /\ IF SessionMissing(sid)
       THEN /\ result' = Returned("end_session", "ValueError", sid)
            /\ UNCHANGED <<active_sessions, archived>>
       ELSE /\ archived' =
                 [s \in (DOMAIN archived) \cup {sid} |->
                    IF s = sid THEN [SessionObject(sid) EXCEPT !.status = "ended"]
                    ELSE archived[s]]
            /\ active_sessions' =
                 [s \in (DOMAIN active_sessions) \ {sid} |-> active_sessions[s]]
            /\ result' = Returned("end_session", "ended", sid)
    /\ UNCHANGED <<next_session, agent_configs, running>>
    /\ UNCHANGED servingVars
    /\ UNCHANGED indexVars

get_session(sid) ==
    /\ LoopFree
    /\ result' = IF SessionMissing(sid)
                 THEN Returned("get_session", "ValueError", sid)
                 ELSE Returned("get_session", SessionObject(sid).status, sid)
    /\ UNCHANGED orchVars
    /\ UNCHANGED servingVars
    /\ UNCHANGED indexVars

\* main.py builds the orchestrator with Config({}): no default agent is set
default_agent_id == None

_select_primary_agent ==
    IF default_agent_id # None /\ default_agent_id \in DictKeys(agent_configs)
    THEN default_agent_id
    ELSE IF Len(agent_configs) > 0 THEN agent_configs[1].key
    ELSE "ValueError"

\* f"This is a simulated response from the {name} agent for query: {query}"
_execute_local_agent(agent_id, query) == <<"simulated", agent_id>> \o query

\* the text an ADK agent answers with
AdkText == <<"adk-text">>

ErrorContent == <<"Error">>

\* an entry that updates the context and leaves the query out of the history
AcceptQuery_DropsQuery(s, query, context) ==
    [s EXCEPT !.context = IF context # EmptyContext THEN DictUpdate(@, context) ELSE @]

\* process_query, lines 219-235: the user message and the context update
AcceptQuery(s, query, context) ==
    [s EXCEPT !.history = Append(@, Message("user", query)),
              !.context = IF context # EmptyContext THEN DictUpdate(@, context) ELSE @]

\* process_query, lines 241-299: outcome of the try block
\*   "ok"        the agent answered
\*   "init_fail" _initialize_agent_in_session raised
\*   "exec_fail" adk.execute_agent raised
AgentOutcomes(s, agent_id) ==
    IF agent_id \notin DictKeys(agent_configs)
    THEN IF agent_id \in s.agents THEN {"exec_fail"} ELSE {"init_fail"}
    ELSE IF DictGet(agent_configs, agent_id) = "adk"
         THEN {"ok", "exec_fail"} \cup (IF agent_id \in s.agents THEN {} ELSE {"init_fail"})
         ELSE {"ok"}

AgentAnswer(agent_id, query) ==
    IF DictGet(agent_configs, agent_id) = "adk" THEN AdkText
    ELSE _execute_local_agent(agent_id, query)

\* an error handler that also closes the session
CompleteQuery_EndsOnError(s, agent_id, query, outcome) ==
    IF outcome = "ok"
    THEN [s EXCEPT !.agents = @ \cup {agent_id},
                   !.history = Append(@, Message("assistant", AgentAnswer(agent_id, query)))]
    ELSE [s EXCEPT !.status = "ended",
                   !.history = Append(@, Message("system", ErrorContent))]

CompleteQuery(s, agent_id, query, outcome) ==
    LET s1 == IF outcome = "init_fail" THEN s
              ELSE [s EXCEPT !.agents = @ \cup {agent_id}]
    IN IF outcome = "ok"
       THEN [s1 EXCEPT !.history =
                Append(@, Message("assistant", AgentAnswer(agent_id, query)))]
       ELSE [s1 EXCEPT !.history = Append(@, Message("system", ErrorContent))]

RECURSIVE HistoryTotal(_, _)
HistoryTotal(sessions, ids) ==
    IF ids = {} THEN 0
    ELSE LET sid == CHOOSE x \in ids : TRUE IN
         Len(sessions[sid].history) + HistoryTotal(sessions, ids \ {sid})

\* messages stored so far, plus the one each call in progress will still add
MessagesCommitted ==
    HistoryTotal(active_sessions, DOMAIN active_sessions)
      + HistoryTotal(archived, DOMAIN archived)
      + Cardinality(running)

\* process_query from its entry to the call of the agent
process_query_begin(req) ==
    /\ LoopFree
    /\ MessagesCommitted + 2 <= MaxHistory
    /\ IF SessionMissing(req.session_id)
       THEN /\ result' = Returned("process_query", "ValueError", req.session_id)
            /\ UNCHANGED <<active_sessions, archived, running>>
       ELSE LET s == SessionObject(req.session_id) IN
            /\ StoreSession(req.session_id, AcceptQuery(s, req.query, req.context))
            /\ IF _select_primary_agent = "ValueError"
               THEN /\ result' = Returned("process_query", "ValueError", req.session_id)
                    /\ UNCHANGED running
               ELSE /\ running' = running \cup
                         {[session_id |-> req.session_id, query |-> req.query,
                           primary_agent_id |-> _select_primary_agent,
                           before |-> s.history]}
                    /\ result' = NoResult
    /\ UNCHANGED <<next_session, agent_configs>>
    /\ UNCHANGED servingVars
    /\ UNCHANGED indexVars

\* process_query from the agent's answer or exception to its return
process_query_return(h, outcome) ==
    /\ h \in running
    /\ LET s == SessionObject(h.session_id) IN
         /\ outcome \in AgentOutcomes(s, h.primary_agent_id)
         /\ StoreSession(h.session_id,
                 CompleteQuery(s, h.primary_agent_id, h.query, outcome))
         /\ result' =
              IF outcome = "ok"
              THEN Returned("process_query", "ok", h.session_id)
              ELSE Returned("process_query", "error", h.session_id)
    /\ running' = running \ {h}
    /\ UNCHANGED <<next_session, agent_configs>>
    /\ UNCHANGED servingVars
    /\ UNCHANGED indexVars

----------------------------------------------------------------------------
(* ServingService and CostOptimizationService *)

\* str.lower() on the alphabet the queries are written in
LowerChar(c) == IF c = "A" THEN "a" ELSE IF c = "B" THEN "b" ELSE c

Lower(str) == [i \in 1..Len(str) |-> LowerChar(str[i])]

RECURSIVE LStrip(_)
LStrip(str) ==
    IF str # <<>> /\ Head(str) = " " THEN LStrip(Tail(str)) ELSE str

RECURSIVE RStrip(_)
RStrip(str) ==
    IF str # <<>> /\ str[Len(str)] = " "
    THEN RStrip(SubSeq(str, 1, Len(str) - 1)) ELSE str

\* a strip that leaves trailing blanks
Strip_LeftOnly(str) == LStrip(str)

\* str.strip()
Strip(str) == RStrip(LStrip(str))

CacheRelevantKeys == {"user_id", "session_id"}

\* The md5 hex digest is taken to be injective on key_data: the key is the
\* pair that key_data encodes, the normalised query and the JSON object of
\* relevant_context with its keys sorted.
_generate_cache_key(query, context) ==
    [normalized_query |-> Strip(Lower(query)),
     relevant_context |->
        [k \in (DOMAIN context) \cap CacheRelevantKeys |-> context[k]]]

RAGRequest(query, session_id, user_id, stream_flag, context) ==
    [query |-> query, session_id |-> session_id, user_id |-> user_id,
     stream |-> stream_flag, context |-> context]

\* opt_request.context, which optimize() copies into optimized_context
OptimizationContext(request) ==
    DictUpdate([session_id |-> request.session_id, user_id |-> request.user_id,
                stream |-> request.stream],
               request.context)

\* opt_outcome: "ok" when optimize() returned, "raise" when it raised.
\* optimize() rewrites only queries of more than 50 words or with a medical
\* context; the queries here are neither, so optimized_query is None.
_apply_cost_optimization(request, opt_outcome) ==
    IF ~config.cost_optimization_enabled THEN request
    ELSE IF opt_outcome = "raise" THEN request
    ELSE [request EXCEPT !.context = DictUpdate(@, OptimizationContext(request))]

\* while len(cache) > max_cache_size: keys_to_remove = keys[:-max_cache_size].
\* In Python keys[:-0] is keys[:0], the empty list.
KeysToRemove(cache, max_cache_size) ==
    IF max_cache_size = 0 THEN <<>>
    ELSE SubSeq(cache, 1, Len(cache) - max_cache_size)

TrimCache(cache, max_cache_size) ==
    IF Len(cache) > max_cache_size
    THEN LET gone == {KeysToRemove(cache, max_cache_size)[i].key :
                        i \in 1..Len(KeysToRemove(cache, max_cache_size))}
         IN SelectSeq(cache, LAMBDA e : e.key \notin gone)
    ELSE cache

\* process_request, lines 126-135
CachePutTrimmed(cache, key, response, max_cache_size) ==
    TrimCache(DictSet(cache, key, response), max_cache_size)

\* process_request_streaming, lines 279-281
CachePutStreaming(cache, key, response) == DictSet(cache, key, response)


\* Characters per streamed chunk
ChunkSize == 20

\* lengths of the response text the provider, the compliance rewrite and
\* the formatter leave: empty, exactly one chunk, one chunk and a character
TextLens == {0, ChunkSize, ChunkSize + 1}

\* how many documents the vector search returned ([] when it raised)
RetrievalOutcomes == {0, 1}

DocumentsTag(n) == IF n = 0 THEN "0" ELSE "1+"

ModifiedText == <<"redacted">>

\* RAGResponse: user_id is not a field of the response; it records the
\* request the response was produced for, so that properties can name it
RAGResponse(text, text_len, docs, request, modified, error) ==
    [response_text |-> text, text_len |-> text_len, sources |-> docs,
     session_id |-> request.session_id, user_id |-> request.user_id,
     query |-> request.query, compliance_modified |-> modified, error |-> error]

NoRequest == RAGRequest(<<>>, None, None, "False", EmptyContext)

NoResponse == RAGResponse(<<>>, 0, 0, NoRequest, FALSE, FALSE)

\* What a serving call gave its caller: the response (or the name of the
\* exception raised) and, for a stream, the chunks yielded.
NoServed == [op |-> "none", kind |-> "none", response |-> NoResponse, chunks |-> <<>>]

Served(op, kind, response, chunks) ==
    [op |-> op, kind |-> kind, response |-> response, chunks |-> chunks]

\* _process_with_agent, lines 391-398
AgentContext(request, docs) ==
    DictUpdate([session_id |-> request.session_id, documents |-> DocumentsTag(docs),
                stream |-> request.stream],
               request.context)

\* AgentOrchestrator.process_request(agent_request) is called by the serving
\* service but defined nowhere in the sources.  Following section 4.5 of the
\* specification it is process_query on the request's session: a missing
\* session fails, the turn is appended to the history, and an agent failure
\* is returned as an error response.
\*   "NotFound"   the session does not exist: nothing changes
\*   "ValueError" no agent is configured: the user message was appended
\*   "ok"/"error" the turn was appended
BridgeKind(sid, agent_outcome) ==
    IF sid \notin DOMAIN active_sessions THEN "NotFound"
    ELSE IF _select_primary_agent = "ValueError" THEN "ValueError"
    ELSE IF agent_outcome = "ok" THEN "ok" ELSE "error"

BridgeSession(sid, query, context, agent_outcome) ==
    LET s == AcceptQuery(active_sessions[sid], query, context) IN
    IF _select_primary_agent = "ValueError" THEN s
    ELSE CompleteQuery(s, _select_primary_agent, query, agent_outcome)

BridgeText(query, agent_outcome) ==
    IF agent_outcome = "ok" THEN AgentAnswer(_select_primary_agent, query)
    ELSE ErrorContent

\* a compliance step that never touches the text
ComplianceText_KeepsText(text, comp_outcome) == text

\* _apply_compliance_checks: the text and the compliance_modified flag
ComplianceText(text, comp_outcome) ==
    IF config.compliance_checking_enabled /\ comp_outcome = "modified"
    THEN ModifiedText ELSE text

ComplianceModified(comp_outcome) ==
    config.compliance_checking_enabled /\ comp_outcome = "modified"

\* a formatter that drops the sources
FreshResponse_NoSources(optimized, docs, agent_outcome, comp_outcome, text_len) ==
    RAGResponse(ComplianceText(BridgeText(optimized.query, agent_outcome), comp_outcome),
                text_len, 0, optimized, ComplianceModified(comp_outcome),
                agent_outcome # "ok")

\* retrieval, agent, compliance and formatting of a request that missed the cache
FreshResponse(optimized, docs, agent_outcome, comp_outcome, text_len) ==
    RAGResponse(ComplianceText(BridgeText(optimized.query, agent_outcome), comp_outcome),
                text_len, docs, optimized, ComplianceModified(comp_outcome),
                agent_outcome # "ok")

CacheHit(key) == config.response_caching_enabled /\ key \in DictKeys(response_cache)

\* ServingService.process_request: one handler, run without suspension
process_request(request, opt_outcome, docs, agent_outcome, comp_outcome, text_len) ==
    LET optimized == _apply_cost_optimization(request, opt_outcome)
        key == _generate_cache_key(optimized.query, optimized.context)
        sid == optimized.session_id
        kind == BridgeKind(sid, agent_outcome)
        response == FreshResponse(optimized, docs, agent_outcome, comp_outcome, text_len)
    IN
    /\ LoopFree
    /\ IF CacheHit(key)
       THEN /\ served' = Served("process_request", "hit",
                                DictGet(response_cache, key), <<>>)
            /\ UNCHANGED <<active_sessions, archived, response_cache>>
       ELSE IF kind = "NotFound"
       THEN /\ served' = Served("process_request", "FrameworkException",
                                NoResponse, <<>>)
            /\ UNCHANGED <<active_sessions, archived, response_cache>>
       ELSE /\ MessagesCommitted + 2 <= MaxHistory
            /\ agent_outcome \in AgentOutcomes(active_sessions[sid], _select_primary_agent)
                 \/ kind = "ValueError"
            /\ StoreSession(sid, BridgeSession(sid, optimized.query,
                                               AgentContext(optimized, docs), agent_outcome))
            /\ IF kind = "ValueError"
               THEN /\ served' = Served("process_request", "FrameworkException",
                                        NoResponse, <<>>)
                    /\ UNCHANGED response_cache
               ELSE /\ served' = Served("process_request", "miss", response, <<>>)
                    /\ response_cache' =
                         IF config.response_caching_enabled
                         THEN CachePutTrimmed(response_cache, key, response,
                                              config.max_cache_size)
                         ELSE response_cache
    /\ UNCHANGED <<next_session, agent_configs, running, result, cost_cache, config, stream>>
    /\ UNCHANGED indexVars

\* process_request_streaming, lines 218-222
StreamAgentContext(request, docs) ==
    [session_id |-> request.session_id, documents |-> DocumentsTag(docs),
     stream |-> "True"]

StreamingChunk(chunk_index, is_final, error) ==
    [chunk_index |-> chunk_index, is_final |-> is_final, error |-> error]

\* the locals of the generator that outlive a yield
Generator(phase, key, response) ==
    [phase |-> phase, key |-> key, response |-> response,
     i |-> 0, chunk_index |-> 0, chunks |-> <<>>]

NoStream == Generator("idle", _generate_cache_key(<<>>, EmptyContext), NoResponse)

\* process_request_streaming from its entry to the first chunk loop
stream_begin(request, opt_outcome, docs, agent_outcome, comp_outcome, text_len) ==
    LET streamed == [request EXCEPT !.stream = "True"]
        optimized == _apply_cost_optimization(streamed, opt_outcome)
        key == _generate_cache_key(optimized.query, optimized.context)
        sid == optimized.session_id
        kind == BridgeKind(sid, agent_outcome)
        response == FreshResponse(optimized, docs, agent_outcome, comp_outcome, text_len)
    IN
    /\ LoopFree
    /\ stream = NoStream
    /\ IF CacheHit(key)
       THEN /\ stream' = Generator("cached", key, DictGet(response_cache, key))
            /\ UNCHANGED <<active_sessions, archived>>
       ELSE IF kind = "NotFound"
       THEN /\ stream' = Generator("error", key, NoResponse)
            /\ UNCHANGED <<active_sessions, archived>>
       ELSE /\ MessagesCommitted + 2 <= MaxHistory
            /\ agent_outcome \in AgentOutcomes(active_sessions[sid], _select_primary_agent)
                 \/ kind = "ValueError"
            /\ StoreSession(sid, BridgeSession(sid, optimized.query,
                                               StreamAgentContext(optimized, docs),
                                               agent_outcome))
            /\ stream' = IF kind = "ValueError"
                         THEN Generator("error", key, NoResponse)
                         ELSE Generator("fresh", key, response)
    /\ UNCHANGED <<next_session, agent_configs, running, result,
                   response_cache, cost_cache, config, served>>
    /\ UNCHANGED indexVars

\* one iteration of the chunk loop: yield a chunk, then sleep
stream_yield ==
    /\ LoopFree
    /\ stream.phase # "idle"
    /\ stream.phase \in {"cached", "fresh"}
    /\ stream.i < stream.response.text_len
    /\ stream' = [stream EXCEPT
          !.chunks = Append(@, StreamingChunk(stream.chunk_index,
                                 stream.i + ChunkSize >= stream.response.text_len, FALSE)),
          !.chunk_index = @ + 1,
          !.i = @ + ChunkSize]
    /\ UNCHANGED orchVars
    /\ UNCHANGED <<result, response_cache, cost_cache, config, served>>
    /\ UNCHANGED indexVars

\* the generator after its loop: the cache update of a fresh answer, the
\* return of a cached one, the error chunk of a failed one
stream_end ==
    /\ LoopFree
    /\ stream.phase # "idle"
    /\ stream.phase = "error" \/ stream.i >= stream.response.text_len
    /\ served' =
         IF stream.phase = "error"
         THEN Served("process_request_streaming", "error", NoResponse,
                     Append(stream.chunks, StreamingChunk(stream.chunk_index, TRUE, TRUE)))
         ELSE Served("process_request_streaming",
                     IF stream.phase = "cached" THEN "hit" ELSE "miss",
                     stream.response, stream.chunks)
    /\ response_cache' =
         IF stream.phase = "fresh" /\ config.response_caching_enabled
         THEN CachePutStreaming(response_cache, stream.key, stream.response)
         ELSE response_cache
    /\ stream' = NoStream
    /\ UNCHANGED orchVars
    /\ UNCHANGED <<result, cost_cache, config>>
    /\ UNCHANGED indexVars

\* CostOptimizationService.update_cache
update_cache(query, context, response) ==
    /\ LoopFree
    /\ cost_cache' =
         IF config.caching_enabled
         THEN CachePutTrimmed(cost_cache, _generate_cache_key(query, context),
                              response, config.max_cache_size)
         ELSE cost_cache
    /\ UNCHANGED orchVars
    /\ UNCHANGED <<result, response_cache, config, served, stream>>
    /\ UNCHANGED indexVars

----------------------------------------------------------------------------
(* The orchestrator service *)

\* agent configurations loaded from the config directory at construction
FileAgentConfigs ==
    {<<>>, <<[key |-> "f1", value |-> "adk"]>>, <<[key |-> "f2", value |-> "local"]>>}

ServingIdle ==
    /\ response_cache = <<>>
    /\ cost_cache = <<>>
    /\ config = [max_cache_size |-> 1, response_caching_enabled |-> TRUE,
                 caching_enabled |-> TRUE, cost_optimization_enabled |-> FALSE,
                 compliance_checking_enabled |-> FALSE]
    /\ served = NoServed
    /\ stream = NoStream

\* no document indexed, no index created, no call made yet
StoreIdle ==
    /\ documents = <<>>
    /\ indices = <<>>
    /\ found = [op |-> "none", kind |-> "none"]
    /\ chunked = [op |-> "none", kind |-> "none"]

\* the defaults of DocumentProcessingConfig
DefaultProcessingConfig ==
    [chunking_strategy |-> "recursive", chunk_size |-> 1000, chunk_overlap |-> 200,
     embedding_model |-> "text-embedding-ada-002",
     extract_metadata |-> TRUE, medical_entity_extraction |-> TRUE]

IndexIdle ==
    /\ StoreIdle
    /\ pconfig = DefaultProcessingConfig

Init ==
    /\ active_sessions = [s \in {} |-> None]
    /\ archived = [s \in {} |-> None]
    /\ next_session = 0
    /\ agent_configs \in FileAgentConfigs
    /\ running = {}
    /\ result = NoResult
    /\ ServingIdle
    /\ IndexIdle

\* an id no create_session ever returned
NeverCreated == "s0"

AnySessionId == SessionIdsDrawn \cup {NeverCreated}

Next ==
    \/ \E u \in {"u1"} : create_session(u)
    \/ \E sid \in AnySessionId : end_session(sid)
    \/ \E sid \in AnySessionId : get_session(sid)
    \/ \E sid \in AnySessionId, q \in {Q1, Q3}, c \in QueryContexts :
          process_query_begin([session_id |-> sid, query |-> q, context |-> c])
    \/ \E h \in running, o \in {"ok", "init_fail", "exec_fail"} : process_query_return(h, o)

Spec == Init /\ [][Next]_vars

----------------------------------------------------------------------------
(* The serving service, in front of the orchestrator *)

\* the two services read max_cache_size from their own configuration
\* objects; the caches are independent, so one value stands for both
Configurations ==
    [max_cache_size : 0..MaxCacheCap, response_caching_enabled : {TRUE},
     caching_enabled : {TRUE}, cost_optimization_enabled : BOOLEAN,
     compliance_checking_enabled : BOOLEAN]

InitAny(configurations, agents) ==
    /\ active_sessions = [s \in {} |-> None]
    /\ archived = [s \in {} |-> None]
    /\ next_session = 0
    /\ agent_configs \in agents
    /\ running = {}
    /\ result = NoResult
    /\ response_cache = <<>>
    /\ cost_cache = <<>>
    /\ config \in configurations
    /\ served = NoServed
    /\ stream = NoStream
    /\ IndexIdle

\* Caching and sessions: one local agent is configured, compliance checking
\* is off, every search returns one document and every answer is one chunk
\* long.
InitServing ==
    InitAny({c \in Configurations : ~c.compliance_checking_enabled},
            {a \in FileAgentConfigs : Len(a) > 0 /\ a[1].value = "local"})

ServingContexts == {EmptyContext}

ServingRequests ==
    {RAGRequest(q, sid, u, "False", c) :
        q \in {Q1, Q3}, sid \in AnySessionId, u \in {"u1"}, c \in ServingContexts}

OptOutcomes == IF config.cost_optimization_enabled THEN {"ok", "raise"} ELSE {"ok"}

NextServing ==
    \/ \E u \in {"u1"} : create_session(u)
    \/ \E r \in ServingRequests, opt \in OptOutcomes :
          process_request(r, opt, 1, "ok", "compliant", ChunkSize)
    \/ \E r \in ServingRequests, opt \in OptOutcomes :
          stream_begin(r, opt, 1, "ok", "compliant", ChunkSize)
    \/ stream_yield
    \/ stream_end

SpecServing == InitServing /\ [][NextServing]_vars

----------------------------------------------------------------------------
(* The cost optimization service's cache on its own *)

CostContexts == {EmptyContext, [user_id |-> "u1"], [topic |-> "x"]}

\* the response dict computed for a query and its context
CostResponse(q, c) == [query |-> q, context |-> c]

NextCost ==
    \E q \in Queries, c \in CostContexts : update_cache(q, c, CostResponse(q, c))

SpecCost == InitAny(Configurations, FileAgentConfigs) /\ [][NextCost]_vars

----------------------------------------------------------------------------
(* Properties *)

AllSessionIds == (DOMAIN active_sessions) \cup (DOMAIN archived)

HistoryOf(sid) == SessionObject(sid).history

\* C1: with response caching enabled, no cache ever holds more entries than
\* the configured max_cache_size, whatever operations were served.
C1_CacheWithinCapacity ==
    /\ config.response_caching_enabled =>
          Len(response_cache) <= config.max_cache_size
    /\ config.caching_enabled => Len(cost_cache) <= config.max_cache_size

\* the requests a client can send next, with either user id
NextRequests ==
    {RAGRequest(q, sid, u, "False", c) :
        q \in {Q1, Q3}, sid \in AnySessionId, u \in UserIds, c \in ServingContexts}

\* C2: whatever request comes next, if process_request answers it from the
\* cache then the cached response was produced for a request with the same
\* user id and the same session id.
C2_NoHitAcrossUsersOrSessions ==
    \A r \in NextRequests, opt \in OptOutcomes :
        LET optimized == _apply_cost_optimization(r, opt)
            key == _generate_cache_key(optimized.query, optimized.context)
        IN CacheHit(key) =>
             /\ DictGet(response_cache, key).session_id = r.session_id
             /\ DictGet(response_cache, key).user_id = r.user_id

\* C3: every request that process_request answers from the cache appends the
\* user query and the returned answer to the history of the request's session.
C3_CacheHitAppendsTurn ==
    [][\A r \in ServingRequests, opt \in OptOutcomes :
         LET optimized == _apply_cost_optimization(r, opt)
             key == _generate_cache_key(optimized.query, optimized.context)
         IN (/\ process_request(r, opt, 1, "ok", "compliant", ChunkSize)
             /\ CacheHit(key)
             /\ r.session_id \in DOMAIN active_sessions)
            => /\ r.session_id \in DOMAIN active_sessions'
               /\ active_sessions'[r.session_id].history =
                    active_sessions[r.session_id].history \o
                      <<Message("user", r.query),
                        Message("assistant", DictGet(response_cache, key).response_text)>>
      ]_vars

\* C4: a process_query on an existing session never lets an exception reach
\* its caller: the only process_query that raises is one whose session is
\* not found.
C4_NoExceptionForExistingSession ==
    (result.op = "process_query" /\ result.kind = "ValueError")
        => result.session_id \notin DOMAIN active_sessions

HadFailure(sid) ==
    \E i \in 1..Len(HistoryOf(sid)) : HistoryOf(sid)[i].role = "system"

\* C5: a process_query that returns an error response leaves its session in
\* active_sessions with status active; a later process_query on that session
\* is accepted (its user message is appended), and when the agent then
\* answers the call returns a normal answer that is appended as the
\* assistant message.
C5_SessionSurvivesFailure ==
    [][/\ \A h \in running, o \in {"init_fail", "exec_fail"} :
            process_query_return(h, o) =>
               /\ result'.kind = "error"
               /\ h.session_id \in DOMAIN active_sessions'
               /\ active_sessions'[h.session_id].status = "active"
       /\ \A sid \in DOMAIN active_sessions, q \in {Q1, Q3}, c \in QueryContexts :
            (/\ HadFailure(sid)
             /\ process_query_begin([session_id |-> sid, query |-> q, context |-> c]))
            => /\ result'.kind # "ValueError"
               /\ sid \in DOMAIN active_sessions'
               /\ active_sessions'[sid].history =
                    Append(active_sessions[sid].history, Message("user", q))
       /\ \A h \in running :
            (HadFailure(h.session_id) /\ process_query_return(h, "ok"))
            => /\ result' = Returned("process_query", "ok", h.session_id)
               /\ active_sessions'[h.session_id].status = "active"
               /\ active_sessions'[h.session_id].history =
                    Append(HistoryOf(h.session_id),
                           Message("assistant", AgentAnswer(h.primary_agent_id, h.query)))
      ]_vars

\* a session that failed a query and then answered the next one
C5_Witness ==
    \E sid \in DOMAIN active_sessions :
        /\ result = Returned("process_query", "ok", sid)
        /\ Len(active_sessions[sid].history) = 4
        /\ active_sessions[sid].history[2].role = "system"
        /\ active_sessions[sid].history[3].role = "user"
        /\ active_sessions[sid].history[4].role = "assistant"

\* C6: a process_query that returns an answer leaves the session's history
\* equal to the history at the call plus exactly two messages: the user
\* message with the query, then the assistant message with the answer.
C6_SuccessAddsUserThenAssistant ==
    [][\A h \in running :
         process_query_return(h, "ok") =>
            /\ h.session_id \in DOMAIN active_sessions'
            /\ Len(active_sessions'[h.session_id].history) = Len(h.before) + 2
            /\ active_sessions'[h.session_id].history =
                 h.before \o
                   <<Message("user", h.query),
                     Message("assistant", AgentAnswer(h.primary_agent_id, h.query))>>
      ]_vars

\* the second successful query of a session has just returned
C6_Witness ==
    \E sid \in DOMAIN active_sessions :
        /\ result = Returned("process_query", "ok", sid)
        /\ Len(active_sessions[sid].history) = 4
        /\ active_sessions[sid].history[1].role = "user"
        /\ active_sessions[sid].history[2].role = "assistant"
        /\ active_sessions[sid].history[3].role = "user"
        /\ active_sessions[sid].history[4].role = "assistant"

\* C7: a session created by create_session is active; a session that
\* end_session has ended stays ended: no step makes its id active again,
\* and no step changes its history, context or status.
C7_EndedIsTerminal ==
    [][/\ \A sid \in (DOMAIN active_sessions') \ (DOMAIN active_sessions) :
            /\ sid \notin DOMAIN archived
            /\ active_sessions'[sid].status = "active"
       /\ \A sid \in DOMAIN active_sessions' : active_sessions'[sid].status = "active"
       /\ \A sid \in DOMAIN archived :
            /\ sid \notin DOMAIN active_sessions'
            /\ sid \in DOMAIN archived'
            /\ archived'[sid] = archived[sid]
            /\ archived[sid].status = "ended"
      ]_vars

\* after a session was ended another one was created, and a query on the
\* ended one has been turned away
C7_Witness ==
    /\ next_session = 2
    /\ "s1" \in DOMAIN archived
    /\ "s2" \in DOMAIN active_sessions
    /\ Len(archived["s1"].history) = 2
    /\ result = Returned("process_query", "ValueError", "s1")

\* C8: end_session on an id that was ended before, or that create_session
\* never returned, raises the not-found ValueError and changes no session.
C8_EndTwiceFails ==
    [][\A sid \in AnySessionId :
         (end_session(sid) /\ (sid \in DOMAIN archived \/ sid \notin SessionIdsDrawn))
         => /\ result' = Returned("end_session", "ValueError", sid)
            /\ UNCHANGED <<active_sessions, archived>>
      ]_vars

\* end_session has just been refused for a session that was ended before
C8_Witness ==
    \E sid \in DOMAIN archived : result = Returned("end_session", "ValueError", sid)

\* C9 as claimed: a process_query on an ended session does not fail.
C9_EndedQueryIsSilent ==
    (result.op = "process_query" /\ result.session_id \in DOMAIN archived)
        => result.kind # "ValueError"

\* C9 amended: a process_query on an ended session fails with the same
\* not-found ValueError as one on an id that never existed, and it changes
\* no session's history, context or status.
C9_EndedQueryFailsUnchanged ==
    [][\A sid \in AnySessionId, q \in {Q1, Q3}, c \in QueryContexts :
         (/\ process_query_begin([session_id |-> sid, query |-> q, context |-> c])
          /\ (sid \in DOMAIN archived \/ sid \notin SessionIdsDrawn))
         => /\ result' = Returned("process_query", "ValueError", sid)
            /\ UNCHANGED <<active_sessions, archived, running>>
      ]_vars

\* a query with a context was refused on an ended session that has a history
C9_Witness ==
    \E sid \in DOMAIN archived :
        /\ result = Returned("process_query", "ValueError", sid)
        /\ archived[sid].history # <<>>
        /\ archived[sid].context # EmptyContext

\* C10: in every session's history each user message is immediately followed
\* by the assistant message answering that query or by a system message; the
\* last message may be the user message of the one call still in progress.
C10_TurnsDoNotInterleave ==
    \A sid \in AllSessionIds :
        LET hist == HistoryOf(sid) IN
        \A i \in 1..Len(hist) :
            hist[i].role = "user" =>
                IF i = Len(hist)
                THEN \E h \in running : h.session_id = sid /\ h.query = hist[i].content
                ELSE \/ hist[i + 1].role = "system"
                     \/ /\ hist[i + 1].role = "assistant"
                        /\ \E a \in DictKeys(agent_configs) :
                              hist[i + 1].content = AgentAnswer(a, hist[i].content)

----------------------------------------------------------------------------
(* The vector database client and its in-memory store                      *)
(* (src/src/vector_db/client.py).  A document's embedding is a sequence of *)
(* numbers and None is the empty sequence: the empty list is never given   *)
(* as an embedding here.  Metadata and filters are plain dicts.            *)

MaxDocs == 3
MaxTopK == 2

DocIdSeq == <<"d1", "d2", "d3", "d4">>

DocIds == {DocIdSeq[i] : i \in 1..MaxDocs}

NoEmbedding == <<>>

Embeddings == {<<1>>, <<1, 1>>}

Metadatas == {EmptyContext, [lang |-> "en"]}

\* the texts stored: "Ab" without metadata, "c" tagged lang=en
TextOf(metadata) == IF metadata = EmptyContext THEN <<"A", "b">> ELSE <<"c">>

VectorDBDocument(id, text, metadata, embedding) ==
    [id |-> id, text |-> text, metadata |-> metadata, embedding |-> embedding]

SearchRequest(query, query_embedding, filter, top_k) ==
    [query |-> query, query_embedding |-> query_embedding,
     filter |-> filter, top_k |-> top_k]

SearchResult(document, score, rank) ==
    [document |-> document, score |-> score, rank |-> rank]

NoSearchRequest == SearchRequest(<<>>, NoEmbedding, EmptyContext, 0)

Found(op, kind, request, results) ==
    [op |-> op, kind |-> kind, request |-> request, results |-> results]

\* del d[k]
DictDel(d, k) == SelectSeq(d, LAMBDA e : e.key # k)

\* 0.5 + 0.5 * np.random.random(), in tenths: some score the call draws
Scores == {5, 7}

\* all(key in doc.metadata and doc.metadata[key] == value ...)
matches_filter(doc, filter) ==
    \A key \in DOMAIN filter :
        key \in DOMAIN doc.metadata /\ doc.metadata[key] = filter[key]

\* a in b, on strings
IsSubstring(a, b) ==
    \E i \in 0..(Len(b) - Len(a)) : SubSeq(b, i + 1, i + Len(a)) = a

\* seq[:n]
Prefix(seq, n) ==
    IF n >= 0
    THEN SubSeq(seq, 1, IF n < Len(seq) THEN n ELSE Len(seq))
    ELSE SubSeq(seq, 1, IF Len(seq) + n > 0 THEN Len(seq) + n ELSE 0)

MaxScore(results) ==
    CHOOSE m \in {results[i].score : i \in 1..Len(results)} :
        \A i \in 1..Len(results) : results[i].score <= m

\* a sort that puts equal scores in reverse order
RECURSIVE SortByScore_TiesReversed(_)
SortByScore_TiesReversed(results) ==
    IF results = <<>> THEN <<>>
    ELSE LET m == MaxScore(results)
             top == SelectSeq(results, LAMBDA r : r.score = m)
         IN  [i \in 1..Len(top) |-> top[Len(top) + 1 - i]]
             \o SortByScore_TiesReversed(SelectSeq(results, LAMBDA r : r.score # m))

\* results.sort(key=lambda x: x.score, reverse=True): list.sort is stable,
\* and with reverse=True equal keys keep their original order
RECURSIVE SortByScore(_)
SortByScore(results) ==
    IF results = <<>> THEN <<>>
    ELSE LET m == MaxScore(results)
         IN  SelectSeq(results, LAMBDA r : r.score = m)
             \o SortByScore(SelectSeq(results, LAMBDA r : r.score # m))

\* for i, result in enumerate(results): result.rank = i + 1
UpdateRanks(results) ==
    [i \in 1..Len(results) |-> [results[i] EXCEPT !.rank = i]]

\* the loop over self.documents.items(): the documents the search keeps,
\* each with the score drawn for it and rank = i + 1
RECURSIVE Candidates(_, _, _, _)
Candidates(docs, request, scores, i) ==
    IF i > Len(docs) THEN <<>>
    ELSE LET doc == docs[i].value
             considered ==
                 IF request.query_embedding # NoEmbedding
                 THEN doc.embedding # NoEmbedding
                 ELSE IsSubstring(Lower(request.query), Lower(doc.text))
             kept == considered /\ (request.filter = EmptyContext
                                    \/ matches_filter(doc, request.filter))
         IN  (IF kept THEN <<SearchResult(doc, scores[i], i)>> ELSE <<>>)
             \o Candidates(docs, request, scores, i + 1)

\* MockVectorDB.search, given the random scores it draws
MockVectorDB_search(docs, request, scores) ==
    UpdateRanks(Prefix(SortByScore(Candidates(docs, request, scores, 1)),
                       request.top_k))

\* VectorDBClient.index_document -> MockVectorDB.index_document
index_document(document) ==
    /\ IF document.embedding = NoEmbedding
       THEN /\ found' = Found("index_document", "INDEXING_ERROR", NoSearchRequest, <<>>)
            /\ UNCHANGED documents
       ELSE /\ documents' = DictSet(documents, document.id, document)
            /\ found' = Found("index_document", "returned", NoSearchRequest, <<>>)
    /\ UNCHANGED <<indices, chunked, pconfig>>
    /\ UNCHANGED orchVars
    /\ UNCHANGED <<result, servingVars>>

\* VectorDBClient.delete_document -> MockVectorDB.delete_document
delete_document(document_id) ==
    /\ documents' = DictDel(documents, document_id)
    /\ found' = Found("delete_document", "returned", NoSearchRequest, <<>>)
    /\ UNCHANGED <<indices, chunked, pconfig>>
    /\ UNCHANGED orchVars
    /\ UNCHANGED <<result, servingVars>>

\* VectorDBClient.search -> MockVectorDB.search
search(request, scores) ==
    /\ IF request.query = <<>> /\ request.query_embedding = NoEmbedding
       THEN found' = Found("search", "SEARCH_ERROR", request, <<>>)
       ELSE found' = Found("search", "returned", request,
                           MockVectorDB_search(documents, request, scores))
    /\ UNCHANGED <<documents, indices, chunked, pconfig>>
    /\ UNCHANGED orchVars
    /\ UNCHANGED <<result, servingVars>>

IndexableDocuments ==
    {VectorDBDocument(id, TextOf(m), m, e) :
        id \in DocIds, m \in Metadatas, e \in Embeddings \cup {NoEmbedding}}

SearchRequests ==
    {SearchRequest(q, e, f, k) :
        q \in {<<>>, <<"a">>}, e \in {NoEmbedding, <<1>>},
        f \in Metadatas, k \in 0..MaxTopK}

NextIndex ==
    \/ \E d \in IndexableDocuments : index_document(d)
    \/ \E id \in DocIds : delete_document(id)
    \/ \E r \in SearchRequests, sc \in [1..Len(documents) -> Scores] : search(r, sc)

\* the services of the other sections are left as constructed
InitIndex ==
    InitAny({c \in Configurations :
                c.max_cache_size = 1 /\ ~c.cost_optimization_enabled
                /\ ~c.compliance_checking_enabled},
            {<<>>})

SpecIndex == InitIndex /\ [][NextIndex]_vars

----------------------------------------------------------------------------
(* Claims on search *)

\* C11: two search calls that follow one another with the same request on
\* the same stored documents return the same results: the same documents in
\* the same order with the same scores and ranks.
C11_SearchIsDeterministic ==
    [][(/\ found.op = "search" /\ found.kind = "returned"
        /\ found'.op = "search" /\ found'.kind = "returned"
        /\ found'.request = found.request
        /\ documents' = documents)
       => found'.results = found.results
      ]_vars

----------------------------------------------------------------------------
(* The Elasticsearch-backed client (src/mvp/vector_db/client.py).  An      *)
(* index is its dense_vector dimension and its documents by id.  The       *)
(* Elasticsearch calls behave as the service does: indices.create fixes    *)
(* "dims", index rejects a vector of another length, search fails on an    *)
(* index that does not exist, and hits of equal score come in an order the *)
(* service chooses.  Vector components are 1 or -1, so that the cosine of  *)
(* two vectors of length d is their dot product divided by d.              *)

IndexNames == {"i1", "i2"}

Dimensions == {1, 2}

Vectors == {<<1>>, <<-1>>, <<1, 1>>}

MvpDocIds == {DocIdSeq[i] : i \in 1..(MaxDocs - 1)}

MvpRequest(index_name, vector, top_k) ==
    [index_name |-> index_name, vector |-> vector, top_k |-> top_k]

NoMvpRequest == MvpRequest("None", <<>>, 0)

RECURSIVE Dot(_, _)
Dot(a, b) == IF a = <<>> THEN 0 ELSE Head(a) * Head(b) + Dot(Tail(a), Tail(b))

\* cosineSimilarity(params.query_vector, 'embedding') + 1.0
ScriptScore(query_vector, embedding) ==
    (Dot(query_vector, embedding) \div Len(query_vector)) + 1

\* VectorDBClient.create_index
create_index(index_name, vector_dimension) ==
    /\ IF index_name \notin DictKeys(indices)
       THEN indices' = DictSet(indices, index_name,
                               [dims |-> vector_dimension, docs |-> <<>>])
       ELSE UNCHANGED indices
    /\ found' = Found("create_index", "returned", NoMvpRequest, <<>>)
    /\ UNCHANGED <<documents, chunked, pconfig>>
    /\ UNCHANGED orchVars
    /\ UNCHANGED <<result, servingVars>>

\* VectorDBClient.index_document, on an index that create_index made
\* (process_document creates the index before it indexes, lines 40-44)
mvp_index_document(index_name, document_id, document, vector) ==
    /\ index_name \in DictKeys(indices)
    /\ LET index == DictGet(indices, index_name) IN
       IF Len(vector) # index.dims
       THEN /\ found' = Found("index_document", "BadRequestError",
                              MvpRequest(index_name, vector, 0), <<>>)
            /\ UNCHANGED indices
       ELSE /\ indices' = DictSet(indices, index_name,
                             [index EXCEPT !.docs =
                                 DictSet(index.docs, document_id,
                                         [text |-> document, embedding |-> vector])])
            /\ found' = Found("index_document", "returned",
                              MvpRequest(index_name, vector, 0), <<>>)
    /\ UNCHANGED <<documents, chunked, pconfig>>
    /\ UNCHANGED orchVars
    /\ UNCHANGED <<result, servingVars>>

\* response["hits"]["hits"] mapped to id, document and score: the documents
\* taken in the given order, which the caller draws in descending score
Hits(docs, query_vector, order, top_k) ==
    Prefix([i \in 1..Len(docs) |->
               [id |-> docs[order[i]].key,
                document |-> docs[order[i]].value.text,
                score |-> ScriptScore(query_vector, docs[order[i]].value.embedding)]],
           top_k)

\* the orders in which Elasticsearch may return the documents of an index
HitOrders(docs, query_vector) ==
    {order \in [1..Len(docs) -> 1..Len(docs)] :
        /\ \A i, j \in 1..Len(docs) : i # j => order[i] # order[j]
        /\ \A i, j \in 1..Len(docs) :
              i < j => ScriptScore(query_vector, docs[order[i]].value.embedding)
                       >= ScriptScore(query_vector, docs[order[j]].value.embedding)}

\* VectorDBClient.search
mvp_search(index_name, query_vector, top_k) ==
    /\ LET request == MvpRequest(index_name, query_vector, top_k) IN
       IF index_name \notin DictKeys(indices)
       THEN found' = Found("search", "NotFoundError", request, <<>>)
       ELSE LET index == DictGet(indices, index_name) IN
            IF index.docs # <<>> /\ Len(query_vector) # index.dims
            THEN found' = Found("search", "BadRequestError", request, <<>>)
            ELSE \E order \in HitOrders(index.docs, query_vector) :
                    found' = Found("search", "returned", request,
                                   Hits(index.docs, query_vector, order, top_k))
    /\ UNCHANGED <<documents, indices, chunked, pconfig>>
    /\ UNCHANGED orchVars
    /\ UNCHANGED <<result, servingVars>>

NextMvpIndex ==
    \/ \E n \in IndexNames, d \in Dimensions : create_index(n, d)
    \/ \E n \in IndexNames, id \in MvpDocIds, v \in Vectors :
          mvp_index_document(n, id, <<"a">>, v)
    \/ \E n \in IndexNames, v \in Vectors, k \in 0..MaxTopK : mvp_search(n, v, k)

SpecMvpIndex == InitIndex /\ [][NextMvpIndex]_vars

\* C13: creating an index that exists with its own dimension changes
\* nothing, creating it with another dimension raises a dimension-mismatch
\* error, and indexing a vector of another length than the index's
\* dimension raises and leaves the index unchanged.
C13_DimensionIsEnforced ==
    [][/\ \A n \in DictKeys(indices), d \in Dimensions :
             create_index(n, d) =>
                 /\ UNCHANGED indices
                 /\ IF d = DictGet(indices, n).dims
                    THEN found'.kind = "returned"
                    ELSE found'.kind # "returned"
       /\ \A n \in DictKeys(indices), id \in MvpDocIds, v \in Vectors :
             (mvp_index_document(n, id, <<"a">>, v) /\ Len(v) # DictGet(indices, n).dims)
                 => (UNCHANGED indices /\ found'.kind # "returned")
      ]_vars

\* C14: a search on an index that holds no document, or that was never
\* created, returns the empty sequence and does not raise.
C14_EmptySearchReturnsNothing ==
    (/\ found.op = "search"
     /\ \/ found.request.index_name \notin DictKeys(indices)
        \/ DictGet(indices, found.request.index_name).docs = <<>>)
        => (found.kind = "returned" /\ found.results = <<>>)

----------------------------------------------------------------------------
(* Claims on the caches' eviction and keys *)

\* C15: when the cache is full, putting a fingerprint it does not hold
\* evicts the oldest-inserted entry and only that one: afterwards the cache
\* holds exactly the max_cache_size most recently inserted entries, in
\* their insertion order.
C15_EvictsOldestOnly ==
    [][\A q \in Queries, c \in CostContexts :
         (/\ update_cache(q, c, CostResponse(q, c))
          /\ config.caching_enabled
          /\ _generate_cache_key(q, c) \notin DictKeys(cost_cache)
          /\ Len(cost_cache) = config.max_cache_size)
         => LET all == Append(cost_cache,
                              [key |-> _generate_cache_key(q, c),
                               value |-> CostResponse(q, c)])
            IN  cost_cache' = SubSeq(all, Len(all) - config.max_cache_size + 1, Len(all))
      ]_vars

\* the letter in either case
CaseForms(ch) ==
    IF ch \in {"a", "A"} THEN {"a", "A"}
    ELSE IF ch \in {"b", "B"} THEN {"b", "B"}
    ELSE {ch}

\* the queries that differ from q at most in letter case and in one blank
\* before or after
QueryVariants(q) ==
    UNION {{r, <<" ">> \o r, r \o <<" ">>, <<" ">> \o r \o <<" ">>} :
              r \in {v \in [1..Len(q) -> {"a", "A", "b", "B", " "}] :
                        \A i \in 1..Len(q) : v[i] \in CaseForms(q[i])}}

\* dict(items): the dict a sequence of key/value pairs builds
AsDict(items) ==
    [k \in {items[i].key : i \in 1..Len(items)} |->
        items[CHOOSE i \in 1..Len(items) :
                 items[i].key = k /\ \A j \in (i + 1)..Len(items) : items[j].key # k].value]

\* the ways of writing the dict c as key/value pairs, in any key order
ItemOrders(c) ==
    {items \in [1..Cardinality(DOMAIN c) -> {[key |-> k, value |-> c[k]] : k \in DOMAIN c}] :
        \A i, j \in 1..Cardinality(DOMAIN c) : i # j => items[i].key # items[j].key}

\* the contexts that differ from c at most in the key "topic" and in the
\* order of their keys
ContextVariants(c) ==
    LET bare == [k \in (DOMAIN c) \ {"topic"} |-> c[k]]
        retagged == {bare} \cup {DictUpdate(bare, [topic |-> v]) : v \in {"x", "y"}}
    IN  {AsDict(items) : items \in UNION {ItemOrders(d) : d \in retagged}}

\* C16: a query that differs only in letter case or surrounding blanks, with
\* a context that differs only in keys other than user_id and session_id or
\* in key order, has the same cache key: after update_cache stored a
\* response, every such variant finds that response.
C16_VariantsShareKey ==
    [][\A q \in Queries, c \in CostContexts :
         (update_cache(q, c, CostResponse(q, c)) /\ config.caching_enabled)
         => \A q2 \in QueryVariants(q), c2 \in ContextVariants(c) :
               /\ _generate_cache_key(q2, c2) = _generate_cache_key(q, c)
               /\ _generate_cache_key(q2, c2) \in DictKeys(cost_cache')
               /\ cost_cache'[DictIndex(cost_cache', _generate_cache_key(q2, c2))].value
                     = CostResponse(q, c)
      ]_vars

\* the entry under the key of "a" without context holds the response of
\* an update for " A" tagged with a topic
C16_Witness ==
    /\ Len(cost_cache) = 1
    /\ cost_cache[1].key = _generate_cache_key(Q1, EmptyContext)
    /\ cost_cache[1].value = CostResponse(Q2, [topic |-> "x"])

----------------------------------------------------------------------------
(* The document processors (src/src/document_processing/processor.py and   *)
(* src/mvp/document_processor/processor.py).  A text is a sequence of      *)
(* one-character strings; blanks are " " and "\n".  The texts chunked here *)
(* hold no "#" header line, and the only medical section header their      *)
(* letters can spell is "plan".                                            *)

MaxLen == 6
MaxChunkSize == 5

Alphabet == <<"a", "b", "c", "d", "e", "f", "g", "h">>

\* texts of distinct characters: a lost, repeated or moved character shows
PlainTexts == {SubSeq(Alphabet, 1, n) : n \in 0..MaxLen}

LineBreak == "\n"

\* texts with sentences, paragraphs and section headers
StructuredTexts ==
    LET paragraphs == {<<"a", ".">>, <<"a", ".", " ", "b", ".">>, <<"c", "c", "c">>}
    IN  paragraphs
        \cup {p \o <<LineBreak, LineBreak>> \o q : p, q \in paragraphs}
        \cup {<<"p", "l", "a", "n", LineBreak, "a">>,
              <<"a", LineBreak, "p", "l", "a", "n", LineBreak, "b">>}

Texts == PlainTexts \cup StructuredTexts

IsSpace(c) == c \in {" ", LineBreak}

\* not s.strip()
IsBlank(s) == \A i \in 1..Len(s) : IsSpace(s[i])

MinOf(set) == CHOOSE x \in set : \A y \in set : x <= y

MaxOf(set) == CHOOSE x \in set : \A y \in set : x >= y

\* s[a:b] for 0 <= a
Slice(s, a, b) == SubSeq(s, a + 1, IF b < Len(s) THEN b ELSE Len(s))

RECURSIVE Concat(_)
Concat(seqs) == IF seqs = <<>> THEN <<>> ELSE Head(seqs) \o Concat(Tail(seqs))

\* mvp _fixed_size_chunking: the loop from position start on
RECURSIVE mvp_fixed_size_chunking(_, _, _, _)
mvp_fixed_size_chunking(content, chunk_size, overlap, start) ==
    IF start < Len(content)
    THEN <<Slice(content, start, start + chunk_size)>>
         \o mvp_fixed_size_chunking(content, chunk_size, overlap,
                                    start + chunk_size - overlap)
    ELSE <<>>

\* def _fixed_size_chunking(self, content, chunk_size=512, overlap=50)
DefaultChunkSize == 512
DefaultOverlap == 50

\* content.split('\n\n')
RECURSIVE SplitParagraphs(_)
SplitParagraphs(s) ==
    LET hits == {i \in 1..(Len(s) - 1) : s[i] = LineBreak /\ s[i + 1] = LineBreak}
    IN  IF hits = {} THEN <<s>>
        ELSE <<SubSeq(s, 1, MinOf(hits) - 1)>>
             \o SplitParagraphs(SubSeq(s, MinOf(hits) + 2, Len(s)))

\* re.split(r'(?<=[.!?])\s+', content)
RECURSIVE SplitSentences(_)
SplitSentences(s) ==
    LET hits == {i \in 2..Len(s) : IsSpace(s[i]) /\ s[i - 1] \in {".", "!", "?"}}
    IN  IF hits = {} THEN <<s>>
        ELSE LET i == MinOf(hits)
                 j == MaxOf({k \in i..Len(s) : \A m \in i..k : IsSpace(s[m])})
             IN  <<SubSeq(s, 1, i - 1)>> \o SplitSentences(SubSeq(s, j + 1, Len(s)))

\* the loop over sentences, lines 72-80
RECURSIVE SentenceLoop(_, _, _, _)
SentenceLoop(sentences, i, current_chunk, chunk_size) ==
    IF i > Len(sentences)
    THEN IF current_chunk # <<>> THEN <<current_chunk>> ELSE <<>>
    ELSE IF Len(current_chunk) + Len(sentences[i]) > chunk_size
         THEN <<current_chunk>> \o SentenceLoop(sentences, i + 1, sentences[i], chunk_size)
         ELSE SentenceLoop(sentences, i + 1,
                           current_chunk \o <<" ">> \o sentences[i], chunk_size)

\* whether mvp _recursive_chunking reaches its fixed-size fallback: the
\* fallback runs with the default overlap, and for chunk_size <= overlap its
\* loop never ends
RECURSIVE ReachesFallback(_, _)
ReachesFallback(content, chunk_size) ==
    IF Len(content) <= chunk_size THEN FALSE
    ELSE LET paragraphs == SplitParagraphs(content) IN
         IF Len(paragraphs) > 1
         THEN \E i \in 1..Len(paragraphs) : ReachesFallback(paragraphs[i], chunk_size)
         ELSE Len(SplitSentences(content)) <= 1

\* mvp _recursive_chunking
RECURSIVE mvp_recursive_chunking(_, _)
mvp_recursive_chunking(content, chunk_size) ==
    IF Len(content) <= chunk_size THEN <<content>>
    ELSE LET paragraphs == SplitParagraphs(content) IN
         IF Len(paragraphs) > 1
         THEN Concat([i \in 1..Len(paragraphs) |->
                         mvp_recursive_chunking(paragraphs[i], chunk_size)])
         ELSE LET sentences == SplitSentences(content) IN
              IF Len(sentences) > 1
              THEN SentenceLoop(sentences, 1, <<>>, chunk_size)
              ELSE mvp_fixed_size_chunking(content, chunk_size, DefaultOverlap, 0)

Document(id, content, metadata) == [id |-> id, content |-> content, metadata |-> metadata]

\* f"{document.id}_chunk_{chunk_index}"
ChunkId(document_id, chunk_index) == <<document_id, "_chunk_", chunk_index>>

DocumentChunk(document, content, metadata, chunk_index) ==
    [id |-> ChunkId(document.id, chunk_index), document_id |-> document.id,
     content |-> content, metadata |-> metadata, embedding |-> NoEmbedding,
     chunk_index |-> chunk_index]

\* a loop that restarts every chunk where the last one ended
RECURSIVE _fixed_size_chunking_NoOverlap(_, _, _)
_fixed_size_chunking_NoOverlap(document, start, chunk_index) ==
    IF start < Len(document.content)
    THEN LET end == IF start + pconfig.chunk_size < Len(document.content)
                    THEN start + pconfig.chunk_size ELSE Len(document.content)
         IN  <<DocumentChunk(document, Slice(document.content, start, end),
                             document.metadata, chunk_index)>>
             \o _fixed_size_chunking_NoOverlap(document, end, chunk_index + 1)
    ELSE <<>>

\* DocumentProcessor._fixed_size_chunking: the loop from start, chunk_index on
RECURSIVE _fixed_size_chunking(_, _, _)
_fixed_size_chunking(document, start, chunk_index) ==
    IF start < Len(document.content)
    THEN LET end == IF start + pconfig.chunk_size < Len(document.content)
                    THEN start + pconfig.chunk_size ELSE Len(document.content)
         IN  <<DocumentChunk(document, Slice(document.content, start, end),
                             document.metadata, chunk_index)>>
             \o _fixed_size_chunking(document,
                                     IF end < Len(document.content)
                                     THEN end - pconfig.chunk_overlap ELSE end,
                                     chunk_index + 1)
    ELSE <<>>

\* whether the loop of DocumentProcessor._fixed_size_chunking ends: a round
\* that leaves start where it was, or before, is followed by such rounds only
RECURSIVE FixedLoopEnds(_, _)
FixedLoopEnds(document, start) ==
    IF start < Len(document.content)
    THEN LET end == IF start + pconfig.chunk_size < Len(document.content)
                    THEN start + pconfig.chunk_size ELSE Len(document.content)
             next == IF end < Len(document.content)
                     THEN end - pconfig.chunk_overlap ELSE end
         IN  next > start /\ FixedLoopEnds(document, next)
    ELSE TRUE

\* re.split(section_pattern, document.content): without a "#" line the
\* pattern matches nowhere
Sections(content) == <<content>>

\* re.split(r"\n\s*\n", section)
RECURSIVE SplitBlankLines(_)
SplitBlankLines(s) ==
    LET ends(i) == {j \in (i + 1)..Len(s) :
                       s[j] = LineBreak /\ \A k \in (i + 1)..(j - 1) : IsSpace(s[k])}
        hits == {i \in 1..Len(s) : s[i] = LineBreak /\ ends(i) # {}}
    IN  IF hits = {} THEN <<s>>
        ELSE <<SubSeq(s, 1, MinOf(hits) - 1)>>
             \o SplitBlankLines(SubSeq(s, MaxOf(ends(MinOf(hits))) + 1, Len(s)))

\* the loop over the paragraphs of an oversized section, lines 300-334
RECURSIVE ParagraphLoop(_, _, _, _, _)
ParagraphLoop(document, paragraphs, j, current_chunk, chunk_index) ==
    IF j > Len(paragraphs)
    THEN IF current_chunk # <<>>
         THEN <<DocumentChunk(document, current_chunk, document.metadata, chunk_index)>>
         ELSE <<>>
    ELSE IF IsBlank(paragraphs[j])
         THEN ParagraphLoop(document, paragraphs, j + 1, current_chunk, chunk_index)
         ELSE LET flush == /\ Len(current_chunk) + Len(paragraphs[j]) > pconfig.chunk_size
                           /\ current_chunk # <<>>
                  kept == IF flush THEN <<>> ELSE current_chunk
                  joined == (IF kept # <<>> THEN kept \o <<LineBreak, LineBreak>> ELSE <<>>)
                            \o paragraphs[j]
              IN  (IF flush
                   THEN <<DocumentChunk(document, current_chunk, document.metadata,
                                        chunk_index)>>
                   ELSE <<>>)
                  \o ParagraphLoop(document, paragraphs, j + 1, joined,
                                   IF flush THEN chunk_index + 1 ELSE chunk_index)

\* the loop over sections, lines 281-334
RECURSIVE SectionLoop(_, _, _, _)
SectionLoop(document, sections, i, chunk_index) ==
    IF i > Len(sections) THEN <<>>
    ELSE LET made ==
                 IF IsBlank(sections[i]) THEN <<>>
                 ELSE IF Len(sections[i]) <= pconfig.chunk_size
                 THEN <<DocumentChunk(document, sections[i], document.metadata,
                                      chunk_index)>>
                 ELSE ParagraphLoop(document, SplitBlankLines(sections[i]), 1, <<>>,
                                    chunk_index)
         IN  made \o SectionLoop(document, sections, i + 1, chunk_index + Len(made))

\* DocumentProcessor._recursive_chunking
_recursive_chunking(document) == SectionLoop(document, Sections(document.content), 1, 0)

\* DocumentProcessor._semantic_chunking
_semantic_chunking(document) == _recursive_chunking(document)

\* where combined_pattern matches: at a "plan" line, from the line break
\* before it (or from the start of the text) to the end of the word
HeaderStarts(s) ==
    {i \in 1..Len(s) :
        LET w == IF i = 1 /\ s[1] # LineBreak THEN 1 ELSE i + 1 IN
        /\ (i = 1 \/ s[i] = LineBreak)
        /\ (w = i + 1 => s[i] = LineBreak)
        /\ w + 3 <= Len(s)
        /\ SubSeq(s, w, w + 3) = <<"p", "l", "a", "n">>
        /\ (w + 3 = Len(s) \/ s[w + 4] = LineBreak)}

HeaderEnd(s, i) == IF i = 1 /\ s[1] # LineBreak THEN 4 ELSE i + 4

\* re.split(combined_pattern, document.content)
RECURSIVE SplitHeaders(_)
SplitHeaders(s) ==
    IF HeaderStarts(s) = {} THEN <<s>>
    ELSE LET i == MinOf(HeaderStarts(s)) IN
         <<SubSeq(s, 1, i - 1)>> \o SplitHeaders(SubSeq(s, HeaderEnd(s, i) + 1, Len(s)))

\* section_headers[i-1], cleaned of line breaks and colons and stripped
SectionHeader(i) == IF i > 0 THEN "plan" ELSE "Introduction"

\* the loop over sections of _medical_section_chunking, lines 377-401;
\* i counts from 0 as enumerate does
RECURSIVE MedicalLoop(_, _, _, _)
MedicalLoop(document, sections, i, chunk_index) ==
    IF i >= Len(sections) THEN <<>>
    ELSE IF IsBlank(sections[i + 1])
         THEN MedicalLoop(document, sections, i + 1, chunk_index)
         ELSE <<DocumentChunk(document, sections[i + 1],
                              DictUpdate(document.metadata, [section |-> SectionHeader(i)]),
                              chunk_index)>>
              \o MedicalLoop(document, sections, i + 1, chunk_index + 1)

\* DocumentProcessor._medical_section_chunking
_medical_section_chunking(document) ==
    MedicalLoop(document, SplitHeaders(document.content), 0, 0)

\* DocumentProcessor._chunk_document; the validator of the configuration
\* admits no other strategy
_chunk_document(document) ==
    IF pconfig.chunking_strategy = "fixed" THEN _fixed_size_chunking(document, 0, 0)
    ELSE IF pconfig.chunking_strategy = "recursive" THEN _recursive_chunking(document)
    ELSE IF pconfig.chunking_strategy = "semantic" THEN _semantic_chunking(document)
    ELSE _medical_section_chunking(document)


Chunked(op, kind, content, chunk_size, overlap, chunks) ==
    [op |-> op, kind |-> kind, content |-> content, chunk_size |-> chunk_size,
     overlap |-> overlap, chunks |-> chunks]

\* a call of DocumentProcessor._chunk_document
call_chunk_document(document) ==
    /\ chunked' = Chunked(pconfig.chunking_strategy, "returned", document.content,
                          pconfig.chunk_size, pconfig.chunk_overlap,
                          _chunk_document(document))
    /\ UNCHANGED <<documents, indices, found, pconfig>>
    /\ UNCHANGED orchVars
    /\ UNCHANGED <<result, servingVars>>

\* a call of mvp's _fixed_size_chunking
call_mvp_fixed_size_chunking(content, chunk_size, overlap) ==
    /\ chunked' = Chunked("mvp_fixed", "returned", content, chunk_size, overlap,
                          mvp_fixed_size_chunking(content, chunk_size, overlap, 0))
    /\ UNCHANGED <<documents, indices, found, pconfig>>
    /\ UNCHANGED orchVars
    /\ UNCHANGED <<result, servingVars>>

\* a call of mvp's _recursive_chunking
call_mvp_recursive_chunking(content, chunk_size) ==
    /\ IF ReachesFallback(content, chunk_size) /\ chunk_size <= DefaultOverlap
       THEN chunked' = Chunked("mvp_recursive", "no return", content, chunk_size,
                               DefaultOverlap, <<>>)
       ELSE chunked' = Chunked("mvp_recursive", "returned", content, chunk_size,
                               DefaultOverlap, mvp_recursive_chunking(content, chunk_size))
    /\ UNCHANGED <<documents, indices, found, pconfig>>
    /\ UNCHANGED orchVars
    /\ UNCHANGED <<result, servingVars>>

Strategies == {"fixed", "recursive", "semantic", "medical_section"}

\* configurations with 0 <= chunk_overlap < chunk_size: with a larger
\* overlap the loop of _fixed_size_chunking does not advance.  The calls of
\* mvp's chunking functions are given the same chunk size and overlap.
ProcessingConfigs ==
    {c \in [chunking_strategy : Strategies, chunk_size : 1..MaxChunkSize,
            chunk_overlap : 0..(MaxChunkSize - 1),
            embedding_model : {"text-embedding-ada-002"},
            extract_metadata : {TRUE}, medical_entity_extraction : {TRUE}] :
        c.chunk_overlap < c.chunk_size}

InitProcessing(configurations) ==
    /\ active_sessions = [s \in {} |-> None]
    /\ archived = [s \in {} |-> None]
    /\ next_session = 0
    /\ agent_configs = <<>>
    /\ running = {}
    /\ result = NoResult
    /\ ServingIdle
    /\ StoreIdle
    /\ pconfig \in configurations

NextChunk ==
    \/ \E t \in Texts : call_chunk_document(Document("doc1", t, EmptyContext))
    \/ \E t \in Texts :
          call_mvp_fixed_size_chunking(t, pconfig.chunk_size, pconfig.chunk_overlap)
    \/ \E t \in Texts : call_mvp_recursive_chunking(t, pconfig.chunk_size)

SpecChunk == InitProcessing(ProcessingConfigs) /\ [][NextChunk]_vars

\* the texts of the chunks the last call returned
ChunkTexts ==
    IF chunked.op \in Strategies
    THEN [i \in 1..Len(chunked.chunks) |-> chunked.chunks[i].content]
    ELSE chunked.chunks

CeilDiv(a, b) == (a + b - 1) \div b

\* C17: fixed-size chunking of a text of length L with chunk size S and
\* overlap O < S returns exactly ceil((L - O) / (S - O)) chunks when L > O.
C17_FixedChunkCount ==
    (/\ chunked.op \in {"fixed", "mvp_fixed"}
     /\ Len(chunked.content) > chunked.overlap)
        => Len(chunked.chunks)
             = CeilDiv(Len(chunked.content) - chunked.overlap,
                       chunked.chunk_size - chunked.overlap)

\* chunk[overlap:]
DropOverlap(chunk, overlap) == SubSeq(chunk, overlap + 1, Len(chunk))

\* the first chunk followed by every later chunk without its first
\* `overlap` characters
Reassembled(chunks, overlap) ==
    IF chunks = <<>> THEN <<>>
    ELSE chunks[1] \o Concat([i \in 1..(Len(chunks) - 1) |->
                                 DropOverlap(chunks[i + 1], overlap)])

\* C18: the chunks of fixed-size chunking, put together with the
\* overlapping first characters of every chunk but the first removed, are
\* the original text.
C18_ChunksReassemble ==
    chunked.op \in {"fixed", "mvp_fixed"}
        => Reassembled(ChunkTexts, chunked.overlap) = chunked.content

\* a text cut into three or more overlapping chunks, the last one short
C18_Witness ==
    /\ chunked.op = "fixed"
    /\ chunked.overlap > 1
    /\ Len(chunked.chunks) >= 3
    /\ Len(chunked.chunks[Len(chunked.chunks)].content) < chunked.chunk_size

\* the chunk without the blanks around it
Trimmed(t) ==
    LET inked == {i \in 1..Len(t) : ~IsSpace(t[i])}
    IN  IF inked = {} THEN <<>> ELSE SubSeq(t, MinOf(inked), MaxOf(inked))

\* one atomic unit: nothing in it to split at
IsAtomic(t) == \A i \in 1..Len(Trimmed(t)) : ~IsSpace(Trimmed(t)[i])

\* C19: every chunk of recursive chunking is at most chunk_size long,
\* unless it is a single atomic unit that is itself longer than chunk_size.
C19_RecursiveChunksFit ==
    (chunked.op \in {"recursive", "semantic", "mvp_recursive"} /\ chunked.kind = "returned")
        => \A i \in 1..Len(ChunkTexts) :
              \/ Len(ChunkTexts[i]) <= chunked.chunk_size
              \/ IsAtomic(ChunkTexts[i]) /\ Len(Trimmed(ChunkTexts[i])) > chunked.chunk_size

----------------------------------------------------------------------------
(* process_document: chunk, embed and index *)

\* len(document.content.split())
WordCount(s) ==
    Cardinality({i \in 1..Len(s) : ~IsSpace(s[i]) /\ (i = 1 \/ IsSpace(s[i - 1]))})

\* DocumentProcessor._extract_metadata, for a document without a source
_extract_metadata(document) ==
    DictUpdate(document.metadata, [word_count |-> WordCount(document.content)])

\* [0.1] * embedding_dim, written as one run: the value and how often
MockEmbedding ==
    <<[value |-> "0.1",
       times |-> IF pconfig.embedding_model = "text-embedding-ada-002" THEN 1536 ELSE 768]>>

\* DocumentProcessor._generate_embeddings
_generate_embeddings(chunks) ==
    [i \in 1..Len(chunks) |-> [chunks[i] EXCEPT !.embedding = MockEmbedding]]

\* the VectorDBDocument built from a chunk, lines 101-110
VectorDocOf(chunk, document_id) ==
    VectorDBDocument(chunk.id, chunk.content,
                     DictUpdate(chunk.metadata,
                                [document_id |-> document_id,
                                 chunk_index |-> chunk.chunk_index]),
                     chunk.embedding)

\* a store that adds an entry for every document indexed, known id or not
RECURSIVE IndexAll_Appends(_, _)
IndexAll_Appends(docs, vector_docs) ==
    IF vector_docs = <<>> THEN docs
    ELSE IndexAll_Appends(Append(docs, [key |-> Head(vector_docs).id,
                                        value |-> Head(vector_docs)]),
                          Tail(vector_docs))

\* the loop of index_document calls, lines 99-114: MockVectorDB.index_document
\* stores each under its id
RECURSIVE IndexAll(_, _)
IndexAll(docs, vector_docs) ==
    IF vector_docs = <<>> THEN docs
    ELSE IndexAll(DictSet(docs, Head(vector_docs).id, Head(vector_docs)),
                  Tail(vector_docs))

Processed(op, kind, document, chunking_strategy, document_id, chunks) ==
    [op |-> op, kind |-> kind, document |-> document,
     chunking_strategy |-> chunking_strategy, document_id |-> document_id,
     chunks |-> chunks]

\* f"doc_{int(time.time())}_{hash(document.content) % 10000}": ids the clock gives
GeneratedIds == {"doc_t1", "doc_t2"}

\* DocumentProcessor.process_document.  The texts hold none of the medical
\* terms _extract_medical_entities looks for: it returns [] and adds nothing
\* to the metadata.
process_document(document, clock_id) ==
    /\ LET id == IF document.id = None THEN clock_id ELSE document.id
           metadata == IF pconfig.extract_metadata
                       THEN _extract_metadata(document) ELSE document.metadata
           chunks == _generate_embeddings(
                         _chunk_document(Document(id, document.content, metadata)))
       IN  IF pconfig.chunking_strategy \notin Strategies
           THEN \* _chunk_document raises, process_document raises in turn
                /\ chunked' = Processed("process_document", "FrameworkException",
                                         document, pconfig.chunking_strategy, id, <<>>)
                /\ UNCHANGED documents
           ELSE IF /\ pconfig.chunking_strategy = "fixed"
                   /\ ~FixedLoopEnds(document, 0)
           THEN \* the loop of _fixed_size_chunking goes on
                /\ chunked' = Processed("process_document", "no return", document,
                                         pconfig.chunking_strategy, id, <<>>)
                /\ UNCHANGED documents
           ELSE /\ documents' = IndexAll(documents,
                                         [i \in 1..Len(chunks) |->
                                             VectorDocOf(chunks[i], id)])
                /\ chunked' = Processed("process_document", "returned", document,
                                         pconfig.chunking_strategy, id, chunks)
    /\ UNCHANGED <<indices, found, pconfig>>
    /\ UNCHANGED orchVars
    /\ UNCHANGED <<result, servingVars>>

\* embedding_model.get_sentence_embedding_dimension() and
\* embedding_model.encode(chunk): the model has one dimension
EncoderDimension == 1

Encode(chunk) == [i \in 1..EncoderDimension |-> 1]

\* the create_index call and the loop of index_document calls, lines 40-44;
\* the index has the encoder's dimension, so that Elasticsearch accepts
\* every vector
RECURSIVE MvpIndexAll(_, _, _, _, _)
MvpIndexAll(idx, index_name, document_id, chunks, i) ==
    IF i > Len(chunks) THEN idx
    ELSE LET index == DictGet(idx, index_name) IN
         MvpIndexAll(DictSet(idx, index_name,
                             [index EXCEPT !.docs =
                                 DictSet(index.docs, ChunkId(document_id, i - 1),
                                         [text |-> chunks[i],
                                          embedding |-> Encode(chunks[i])])]),
                     index_name, document_id, chunks, i + 1)

\* mvp DocumentProcessor.process_document
mvp_process_document(index_name, document_id, content, chunking_strategy) ==
    /\ IF chunking_strategy \notin {"fixed", "recursive"}
       THEN /\ chunked' = Processed("mvp_process_document", "ValueError",
                                    Document(document_id, content, EmptyContext),
                                    chunking_strategy, document_id, <<>>)
            /\ UNCHANGED indices
       ELSE LET chunks == IF chunking_strategy = "fixed"
                          THEN mvp_fixed_size_chunking(content, DefaultChunkSize,
                                                       DefaultOverlap, 0)
                          ELSE mvp_recursive_chunking(content, DefaultChunkSize)
                created == IF index_name \notin DictKeys(indices)
                           THEN DictSet(indices, index_name,
                                        [dims |-> EncoderDimension, docs |-> <<>>])
                           ELSE indices
            IN  /\ indices' = MvpIndexAll(created, index_name, document_id, chunks, 1)
                /\ chunked' = Processed("mvp_process_document", "returned",
                                        Document(document_id, content, EmptyContext),
                                        chunking_strategy, document_id,
                                        [i \in 1..Len(chunks) |->
                                            [id |-> ChunkId(document_id, i - 1),
                                             content |-> chunks[i],
                                             chunk_index |-> i - 1]])
    /\ UNCHANGED <<documents, found, pconfig>>
    /\ UNCHANGED orchVars
    /\ UNCHANGED <<result, servingVars>>

\* a text longer than the default chunk size, and one of two such paragraphs
LongText == [i \in 1..(DefaultChunkSize + DefaultOverlap) |-> "x"]

LongParagraphs ==
    SubSeq(LongText, 1, DefaultChunkSize - 1) \o <<LineBreak, LineBreak>>
        \o SubSeq(LongText, 1, DefaultChunkSize - 1)

ProcessedTexts ==
    {<<"a", ".">>, <<"a", ".", LineBreak, LineBreak, "a", ".">>,
     <<"a", LineBreak, "p", "l", "a", "n", LineBreak, "b">>}

\* documents that bring their id, and one that leaves it to the processor
ProcessedDocuments ==
    {Document("doc1", t, EmptyContext) : t \in ProcessedTexts}
        \cup {Document(None, <<"a", ".">>, EmptyContext)}

NextProcess ==
    \/ \E d \in ProcessedDocuments, c \in GeneratedIds : process_document(d, c)
    \/ \E t \in {LongText, LongParagraphs},
          s \in {"fixed", "recursive", "semantic"} :
          mvp_process_document("i1", "doc1", t, s)

SpecProcess ==
    InitProcessing({c \in ProcessingConfigs : c.chunk_size = 3 /\ c.chunk_overlap = 1})
        /\ [][NextProcess]_vars

\* the chunks of a call carry the indexes 0, 1, 2, ... and the ids made of
\* the document's id and the index
IdsByPosition(call) ==
    \A i \in 1..Len(call.chunks) :
        /\ call.chunks[i].chunk_index = i - 1
        /\ call.chunks[i].id = ChunkId(call.document_id, i - 1)

----------------------------------------------------------------------------
(* process_document under any configuration *)

\* configurations as DocumentProcessingConfig takes them once the validator
\* of chunking_strategy is passed by: any strategy name, and any integer as
\* chunk_size, for which there is no validator
AnyProcessingConfigs ==
    [chunking_strategy : Strategies \cup {"sliding"}, chunk_size : {-1, 0, 3},
     chunk_overlap : {0, 1},
     embedding_model : {"text-embedding-ada-002"},
     extract_metadata : {TRUE}, medical_entity_extraction : {TRUE}]

InvalidConfig(c) == c.chunking_strategy \notin Strategies \/ c.chunk_size <= 0

NextConfig ==
    \/ \E t \in {<<"a", ".">>, <<"a", ".", LineBreak, LineBreak, "a", ".">>} :
          process_document(Document("doc1", t, EmptyContext), "doc_t1")
    \/ \E s \in {"fixed", "sliding"} : mvp_process_document("i1", "doc1", <<"a", ".">>, s)

SpecConfig == InitProcessing(AnyProcessingConfigs) /\ [][NextConfig]_vars

\* C21: process_document under an unknown strategy name or a chunk size of
\* zero or less ends in an error, produces no chunk and leaves the stored
\* documents and the indexes as they are.
C21_InvalidConfigFailsFast ==
    [][/\ (chunked'.op = "process_document" /\ InvalidConfig(pconfig))
          => /\ chunked'.kind = "FrameworkException"
             /\ chunked'.chunks = <<>>
             /\ documents' = documents
       /\ (/\ chunked'.op = "mvp_process_document"
           /\ chunked'.chunking_strategy \notin {"fixed", "recursive"})
          => /\ chunked'.kind = "ValueError"
             /\ chunked'.chunks = <<>>
             /\ indices' = indices
      ]_vars

----------------------------------------------------------------------------
(* The serving pipeline: retrieval, agent, compliance, formatting, cache *)

\* what compliance_service.check_compliance does:
\*   "compliant" reports compliant=True
\*   "modified"  reports compliant=False with modified_content
\*   "flagged"   reports compliant=False without modified_content
\*   "raise"     raises
ComplianceOutcomes == {"compliant", "modified", "flagged", "raise"}

\* one agent is configured, local or ADK; the cache holds one response
InitPipeline ==
    InitAny({c \in Configurations : c.max_cache_size = 1 /\ ~c.cost_optimization_enabled},
            {a \in FileAgentConfigs : Len(a) > 0})

PipelineRequests ==
    {RAGRequest(q, sid, "u1", "False", EmptyContext) :
        q \in {Q1, Q3}, sid \in {"s0", "s1"}}

NextPipeline ==
    \/ \E u \in {"u1"} : create_session(u)
    \/ \E r \in PipelineRequests, docs \in RetrievalOutcomes,
          a \in {"ok", "exec_fail"}, comp \in ComplianceOutcomes :
          process_request(r, "ok", docs, a, comp, ChunkSize)
    \/ \E r \in PipelineRequests, a \in {"ok", "exec_fail"}, n \in TextLens :
          stream_begin(r, "ok", 1, a, "compliant", n)
    \/ stream_yield
    \/ stream_end

SpecPipeline == InitPipeline /\ [][NextPipeline]_vars


\* the pipeline without streaming
NextRequest ==
    \/ \E u \in {"u1"} : create_session(u)
    \/ \E r \in PipelineRequests, docs \in RetrievalOutcomes,
          a \in {"ok", "exec_fail"}, comp \in ComplianceOutcomes :
          process_request(r, "ok", docs, a, comp, ChunkSize)

SpecRequest == InitPipeline /\ [][NextRequest]_vars

C23_RetrievalShortfallIsNoError ==
    [][\A r \in PipelineRequests, docs \in RetrievalOutcomes,
          a \in {"ok", "exec_fail"}, comp \in ComplianceOutcomes :
          LET key == _generate_cache_key(r.query, r.context) IN
          (/\ process_request(r, "ok", docs, a, comp, ChunkSize)
           /\ r.session_id \in DOMAIN active_sessions
           /\ ~CacheHit(key))
          => /\ served'.kind = "miss"
             /\ served'.response.sources = docs
             /\ a = "ok" => ~served'.response.error
             /\ active_sessions'[r.session_id].context.documents = DocumentsTag(docs)
             /\ Len(active_sessions'[r.session_id].history) =
                  Len(active_sessions[r.session_id].history) + 2
      ]_vars

\* a request whose search returned nothing was answered by the agent
C23_Witness ==
    /\ served.op = "process_request"
    /\ served.kind = "miss"
    /\ served.response.sources = 0
    /\ ~served.response.error
    /\ served.response.session_id \in DOMAIN active_sessions
    /\ active_sessions[served.response.session_id].context.documents = DocumentsTag(0)

----------------------------------------------------------------------------
(* mvp AgentOrchestrator.process_query *)

\* def search(self, index_name, query_vector, top_k: int = 5)
DefaultTopK == 5

\* AgentOrchestrator.agents after register_agent(Agent(name="default", ...))
RegisteredAgents == {"default"}

\* "\n".join(texts)
RECURSIVE JoinLines(_)
JoinLines(texts) ==
    IF texts = <<>> THEN <<>>
    ELSE IF Len(texts) = 1 THEN texts[1]
    ELSE texts[1] \o <<LineBreak>> \o JoinLines(Tail(texts))

\* agent.prompt.format(context=context, query=query)
Prompt(agent_name, context, query) ==
    [agent |-> agent_name, context |-> context, query |-> query]

\* What process_query gave its caller: the search results and the prompt it
\* built on the way, the completion it received, and the value returned.
\* The function returns the stripped text alone, so no source reaches the
\* caller.
Answered(kind, results, prompt, generated, returned) ==
    [op |-> "process_query", kind |-> kind, results |-> results, prompt |-> prompt,
     generated |-> generated, returned |-> returned, sources |-> <<>>]

\* mvp AgentOrchestrator.process_query; generated is the text of the
\* completion openai.Completion.create returns
mvp_process_query(index_name, query, agent_name, generated) ==
    /\ IF agent_name \notin RegisteredAgents
       THEN found' = Answered("ValueError", <<>>, <<>>, <<>>, <<>>)
       ELSE IF index_name \notin DictKeys(indices)
       THEN found' = Answered("NotFoundError", <<>>, <<>>, <<>>, <<>>)
       ELSE LET index == DictGet(indices, index_name)
                query_embedding == Encode(query)
            IN  IF index.docs # <<>> /\ Len(query_embedding) # index.dims
                THEN found' = Answered("BadRequestError", <<>>, <<>>, <<>>, <<>>)
                ELSE \E order \in HitOrders(index.docs, query_embedding) :
                        LET search_results ==
                                Hits(index.docs, query_embedding, order, DefaultTopK)
                            context ==
                                JoinLines([i \in 1..Len(search_results) |->
                                              search_results[i].document])
                        IN  found' = Answered("returned", search_results,
                                              Prompt(agent_name, context, query),
                                              generated, Strip(generated))
    /\ UNCHANGED <<documents, indices, chunked, pconfig>>
    /\ UNCHANGED orchVars
    /\ UNCHANGED <<result, servingVars>>

Sky == <<"s", "k", "y">>

Grass == <<"g", "r", "a", "s", "s">>

NextMvpQuery ==
    \/ \E id \in {"doc1", "doc2"}, t \in {Sky, Grass}, s \in {"fixed", "recursive", "semantic"} :
          mvp_process_document("i1", id, t, s)
    \/ \E n \in IndexNames, a \in {"default", "other"},
          g \in {<<"b", "l", "u", "e">>, <<" ", "b", "l", "u", "e", " ">>, <<>>} :
          mvp_process_query(n, <<"q">>, a, g)

SpecMvpQuery == InitIndex /\ [][NextMvpQuery]_vars

\* C24: a process_query for a registered agent that returns has put exactly
\* the texts of the search results, in their order, into the prompt, returns
\* the generated text, and hands its caller one source per search result.
C24_AnsweredFromRetrieval ==
    (found.op = "process_query" /\ found.kind = "returned")
        => /\ found.prompt.context =
                JoinLines([i \in 1..Len(found.results) |-> found.results[i].document])
           /\ found.returned = Strip(found.generated)
           /\ Len(found.sources) = Len(found.results)


\* the cache holds the response of a turn of the session with this query
TurnCached(cache, sid, query) ==
    \E i \in 1..Len(cache) :
        cache[i].value.session_id = sid /\ cache[i].value.query = query

\* C25: whenever a step appends messages of a turn to a session's history,
\* the response cache holds the entry of that turn by the end of the step:
\* no history shows the turn before its cache entry exists.
C25_CachedBeforeHistory ==
    [][\A sid \in DOMAIN active_sessions :
          (/\ sid \in DOMAIN active_sessions'
           /\ Len(active_sessions'[sid].history) > Len(active_sessions[sid].history))
          => TurnCached(response_cache', sid,
                        active_sessions'[sid].history[
                            Len(active_sessions[sid].history) + 1].content)
      ]_vars

----------------------------------------------------------------------------
(* A provider call that is aborted *)

\* process_query left by an exception that "except Exception" (line 283)
\* does not catch: a cancellation or an interrupt raised in the provider
\* call passes through the handler, and nothing is written after the user
\* message.
process_query_abort(h) ==
    /\ h \in running
    /\ running' = running \ {h}
    /\ result' = Returned("process_query", "aborted", h.session_id)
    /\ UNCHANGED <<active_sessions, archived, next_session, agent_configs>>
    /\ UNCHANGED servingVars
    /\ UNCHANGED indexVars

NextTurn ==
    \/ Next
    \/ \E h \in running : process_query_abort(h)

SpecTurn == Init /\ [][NextTurn]_vars

\* C26: the query of every accepted turn is in the history of its session
\* from the moment the call reaches the provider, and it is still there,
\* at its place, after any step: a failure of the provider call, its abort,
\* or the end of the session.
C26_AcceptedQueryIsKept ==
    [][\A h \in running \cup running' :
          LET sid == h.session_id
              after == IF sid \in DOMAIN active_sessions'
                       THEN active_sessions'[sid] ELSE archived'[sid]
          IN  /\ sid \in (DOMAIN active_sessions') \cup (DOMAIN archived')
              /\ Len(after.history) > Len(h.before)
              /\ SubSeq(after.history, 1, Len(h.before)) = h.before
              /\ after.history[Len(h.before) + 1] = Message("user", h.query)
      ]_vars

\* one turn of the session failed and the next one was aborted: both
\* queries are in the history
C26_Witness ==
    \E sid \in DOMAIN active_sessions :
        /\ result = Returned("process_query", "aborted", sid)
        /\ Len(active_sessions[sid].history) = 3
        /\ active_sessions[sid].history[1].role = "user"
        /\ active_sessions[sid].history[2].role = "system"
        /\ active_sessions[sid].history[3].role = "user"


\* C27: the chunks of every finished stream carry the indexes 0, 1, 2, ...
\* in the order they were yielded, and exactly one of them, the last, is
\* marked final.
C27_StreamEndsWithOneFinal ==
    served.op = "process_request_streaming"
        => /\ Len(served.chunks) >= 1
           /\ \A i \in 1..Len(served.chunks) :
                 /\ served.chunks[i].chunk_index = i - 1
                 /\ served.chunks[i].is_final <=> (i = Len(served.chunks))


\* C28: every call of a chunking function with a chunk size above zero and
\* an overlap below it returns.
C28_ChunkingReturns ==
    chunked.op \in {"fixed", "recursive", "semantic", "medical_section",
                    "mvp_fixed", "mvp_recursive"}
        => chunked.kind = "returned"

----------------------------------------------------------------------------
(* VectorDBClient.batch_index_documents *)

\* a batch call that hands every batch to the store unchecked
batch_index_documents_Unchecked(batch) ==
    /\ documents' = IndexAll(documents, batch)
    /\ found' = Found("batch_index_documents", "returned", NoSearchRequest,
                      [i \in 1..Len(batch) |-> batch[i].id])
    /\ UNCHANGED <<indices, chunked, pconfig>>
    /\ UNCHANGED orchVars
    /\ UNCHANGED <<result, servingVars>>

\* VectorDBClient.batch_index_documents -> MockVectorDB.batch_index_documents:
\* the embeddings are checked for the whole batch before the store is called
batch_index_documents(batch) ==
    /\ IF \E i \in 1..Len(batch) : batch[i].embedding = NoEmbedding
       THEN /\ found' = Found("batch_index_documents", "BATCH_INDEXING_ERROR",
                              NoSearchRequest, <<>>)
            /\ UNCHANGED documents
       ELSE /\ documents' = IndexAll(documents, batch)
            /\ found' = Found("batch_index_documents", "returned", NoSearchRequest,
                              [i \in 1..Len(batch) |-> batch[i].id])
    /\ UNCHANGED <<indices, chunked, pconfig>>
    /\ UNCHANGED orchVars
    /\ UNCHANGED <<result, servingVars>>

BatchDocuments ==
    {VectorDBDocument(id, TextOf(EmptyContext), EmptyContext, e) :
        id \in DocIds, e \in Embeddings \cup {NoEmbedding}}

\* batches of no, one or two documents
Batches ==
    {<<>>} \cup {<<d>> : d \in BatchDocuments}
           \cup {<<d, e>> : d \in BatchDocuments, e \in BatchDocuments}

NextBatch ==
    \/ \E d \in BatchDocuments : index_document(d)
    \/ \E b \in Batches : batch_index_documents(b)

SpecBatch == InitIndex /\ [][NextBatch]_vars

\* C29: a batch_index_documents call with a document that has no embedding
\* fails and leaves the stored documents as they were, whatever the other
\* documents of the batch are; so does index_document of a document without
\* an embedding; and every failed call of the two leaves the store unchanged.
C29_MissingEmbeddingStoresNothing ==
    [][/\ \A b \in Batches :
            (/\ batch_index_documents(b)
             /\ \E i \in 1..Len(b) : b[i].embedding = NoEmbedding)
            => /\ found'.kind = "BATCH_INDEXING_ERROR"
               /\ documents' = documents
       /\ \A d \in BatchDocuments :
            (index_document(d) /\ d.embedding = NoEmbedding)
            => /\ found'.kind = "INDEXING_ERROR"
               /\ documents' = documents
       /\ found'.kind \in {"INDEXING_ERROR", "BATCH_INDEXING_ERROR"}
            => documents' = documents
      ]_vars

\* a batch failed on a store that already holds documents
C29_Witness ==
    /\ found.op = "batch_index_documents"
    /\ found.kind = "BATCH_INDEXING_ERROR"
    /\ Len(documents) >= 2


\* C30: a serving call that fails leaves the response cache as it was, and
\* the cache never holds the response of a request whose generation failed:
\* no later request is answered with a cached error.
C30_FailureIsNotCached ==
    [][/\ (served' # served /\ served'.kind \in {"FrameworkException", "error"})
          => response_cache' = response_cache
       /\ \A i \in 1..Len(response_cache') : ~response_cache'[i].value.error
      ]_vars

====
